---- MODULE Spec2Model ----
(***************************************************************************)
(* Model of mcp23009.c: the MCP23009 I2C expander driven as a one-hot      *)
(* general purpose output.  One driver instance is followed from probe to  *)
(* remove.  The I2C transport (i2c_master_send) is the environment: each   *)
(* send is answered with a status chosen from SendRets.                    *)
(***************************************************************************)
EXTENDS Integers, Sequences, FiniteSets, TLC

(* ------------------------------ bounds --------------------------------- *)
\* number of read_raw/write_raw calls followed after a successful probe
MaxCalls == 2
\* largest "num-out" value offered by platform data / devicetree
MaxNumOut == 9
\* write_raw is called with val in -MaxNeg .. MaxVal
MaxVal == 9
MaxNeg == 1

(* ------------------------- program constants --------------------------- *)
EINVAL == 22
EIO == 5
ENODEV == 19
ENOMEM == 12
IIO_VAL_INT == 1
REG_IODIR == 0
REG_GPPU == 6
REG_GPIO == 9

\* answers of i2c_master_send(client, buf, 2): a negative errno, a short
\* transfer, or the full two bytes
SendRets == {-121, 1, 2}
\* answers of iio_device_register
RegisterRets == {0, -ENOMEM}
Masks == {"RAW", "SCALE", "OTHER"}

VARIABLES state, num_out, inout_mask, out_value, bus, probe, last, calls
vars == <<state, num_out, inout_mask, out_value, bus, probe, last, calls>>

(* ---------------------------- bit helpers ------------------------------ *)
RECURSIVE Pow2(_)
Pow2(n) == IF n = 0 THEN 1 ELSE 2 * Pow2(n - 1)

\* truncation on assignment to a u8
U8(x) == x % 256

RECURSIVE BitAnd(_, _)
BitAnd(a, b) ==
    IF a = 0 \/ b = 0 THEN 0
    ELSE (a % 2) * (b % 2) + 2 * BitAnd(a \div 2, b \div 2)

RECURSIVE PopCount(_)
PopCount(a) == IF a = 0 THEN 0 ELSE (a % 2) + PopCount(a \div 2)

\* one i2c_master_send call as seen on the bus: the buffer, the requested
\* length and the status the transport answered
Frame(reg, dat, ret) == [buf |-> <<reg, dat>>, count |-> 2, ret |-> ret]

(* --------------------------- mcp23009_set_value ------------------------ *)
OneHot_NoOffset(val) == IF val = 0 THEN 0 ELSE U8(Pow2(val))

OneHot_Binary(val) == U8(val)

\* outbuf[1]: 0 for val 0, else 1 << (val-1), stored in a u8
OneHot(val) == IF val = 0 THEN 0 ELSE U8(Pow2(val - 1))

\* return value of mcp23009_set_value for the status of the send
SetValueRet(ret) == IF ret < 0 THEN ret ELSE IF ret # 2 THEN -EIO ELSE 0

set_value_cached(data, val, r) ==
    IF val > 8 \/ val < 0 THEN [frames |-> <<>>, ret |-> -EINVAL]
    ELSE IF val = data.out_value THEN [frames |-> <<>>, ret |-> 0]
    ELSE [frames |-> <<Frame(REG_GPIO, OneHot(val), r)>>,
          ret |-> SetValueRet(r)]

\* r is the status the transport answers if a frame is sent
mcp23009_set_value(data, val, r) ==
    IF val > 8 \/ val < 0 THEN [frames |-> <<>>, ret |-> -EINVAL]
    ELSE [frames |-> <<Frame(REG_GPIO, OneHot(val), r)>>,
          ret |-> SetValueRet(r)]

(* --------------------------- mcp23009_write_raw ------------------------ *)
ValInRange_NoUpper(val, n) == val >= 0

ValInRange_ChipPins(val, n) == val >= 0 /\ val <= 8

\* (val>=0) && (val<=data->num_out)
ValInRange(val, n) == val >= 0 /\ val <= n

write_raw_always_store(data, val, mask, r) ==
    IF mask = "RAW" THEN
        IF ValInRange(val, data.num_out) THEN
            LET sv == mcp23009_set_value(data, val, r)
            IN  [data |-> [data EXCEPT !.out_value = U8(val)],
                 frames |-> sv.frames, ret |-> sv.ret]
        ELSE [data |-> [data EXCEPT !.out_value = U8(val)],
              frames |-> <<>>, ret |-> -EINVAL]
    ELSE [data |-> data, frames |-> <<>>, ret |-> -EINVAL]

mcp23009_write_raw(data, val, mask, r) ==
    IF mask = "RAW" THEN
        IF ValInRange(val, data.num_out) THEN
            LET sv == mcp23009_set_value(data, val, r)
            IN  [data |-> [data EXCEPT !.out_value = U8(val)],
                 frames |-> sv.frames, ret |-> sv.ret]
        ELSE [data |-> data, frames |-> <<>>, ret |-> -EINVAL]
    ELSE [data |-> data, frames |-> <<>>, ret |-> -EINVAL]

(* --------------------------- mcp23009_read_raw ------------------------- *)
\* v0 is the content of *val before the call
mcp23009_read_raw(data, mask, v0) ==
    IF mask = "RAW" THEN [val |-> data.out_value, ret |-> IIO_VAL_INT]
    ELSE IF mask = "SCALE" THEN [val |-> 1, ret |-> IIO_VAL_INT]
    ELSE [val |-> v0, ret |-> -EINVAL]

(* ----------------------------- mcp23009_probe -------------------------- *)
\* devicetree lookup of "num-out"; without CONFIG_OF it always fails
mcp23009_probe_dt(config_of, has_np, has_prop, n) ==
    IF ~config_of THEN [err |-> -ENODEV, num_out |-> 0]
    ELSE IF ~has_np THEN [err |-> -ENODEV, num_out |-> 0]
    ELSE [err |-> 0, num_out |-> IF has_prop THEN n ELSE 8]

NumOutInvalid_OffByOne(n) == n > 9

\* (pdata->num_out) > 8
NumOutInvalid(n) == n > 8

InOutMask_Inverted(n) == BitAnd(Pow2(n) - 1, 255)

\* ~((1UL << num_out) - 1) & 0xFF
InOutMask(n) == 255 - ((Pow2(n) - 1) % 256)

ConfigSendFailed_NegOnly(ret) == ret < 0

\* (ret < 0)||(ret != 2)
ConfigSendFailed(ret) == ret < 0 \/ ret # 2

\* devm_iio_device_alloc returns zeroed private data
ZeroData == [num_out |-> 0, out_value |-> 0, inout_mask |-> 0]

NoProbe == [resolved |-> FALSE, num_out |-> 0, reg |-> 0, ret |-> 0]

mcp23009_probe(alloc_ok, has_pdata, config_of, has_np, has_prop, n, r1, r2, reg) ==
    IF ~alloc_ok THEN
        [data |-> ZeroData, frames |-> <<>>,
         probe |-> [NoProbe EXCEPT !.ret = -ENOMEM]]
    ELSE
    LET dt == mcp23009_probe_dt(config_of, has_np, has_prop, n)
        err == IF has_pdata THEN 0 ELSE dt.err
        pn == IF has_pdata THEN n ELSE dt.num_out
    IN
    IF err # 0 THEN
        [data |-> ZeroData, frames |-> <<>>,
         probe |-> [NoProbe EXCEPT !.ret = err]]
    ELSE
    LET p == [resolved |-> TRUE, num_out |-> pn, reg |-> 0, ret |-> 0]
    IN
    IF NumOutInvalid(pn) THEN
        [data |-> ZeroData, frames |-> <<>>,
         probe |-> [p EXCEPT !.ret = -EINVAL]]
    ELSE
    LET d == [num_out |-> pn, out_value |-> 0, inout_mask |-> InOutMask(pn)]
        f1 == Frame(REG_IODIR, d.inout_mask, r1)
        f2 == Frame(REG_GPPU, 255, r2)
    IN
    IF ConfigSendFailed(r1) THEN
        [data |-> d, frames |-> <<f1>>, probe |-> [p EXCEPT !.ret = -EIO]]
    ELSE IF ConfigSendFailed(r2) THEN
        [data |-> d, frames |-> <<f1, f2>>, probe |-> [p EXCEPT !.ret = -EIO]]
    ELSE
        [data |-> d, frames |-> <<f1, f2>>,
         probe |-> [p EXCEPT !.reg = reg, !.ret = reg]]

(* ------------------------------ the machine ---------------------------- *)
Data == [num_out |-> num_out, out_value |-> out_value,
         inout_mask |-> inout_mask]

NoCall == [op |-> "none", mask |-> "RAW", val |-> 0, ret |-> 0,
           pre |-> 0, nbus |-> 0]

Init ==
    /\ state = "Unbound"
    /\ num_out = 0
    /\ inout_mask = 0
    /\ out_value = 0
    /\ bus = <<>>
    /\ probe = NoProbe
    /\ last = NoCall
    /\ calls = 0

Probe ==
    /\ state = "Unbound"
    /\ \E alloc_ok \in BOOLEAN, has_pdata \in BOOLEAN, config_of \in BOOLEAN,
          has_np \in BOOLEAN, has_prop \in BOOLEAN, n \in 0..MaxNumOut,
          r1 \in SendRets, r2 \in SendRets, reg \in RegisterRets :
        LET res == mcp23009_probe(alloc_ok, has_pdata, config_of, has_np,
                                  has_prop, n, r1, r2, reg)
        IN  /\ num_out' = res.data.num_out
            /\ inout_mask' = res.data.inout_mask
            /\ out_value' = res.data.out_value
            /\ bus' = bus \o res.frames
            /\ probe' = res.probe
            /\ state' = IF res.probe.ret = 0 THEN "Ready" ELSE "Failed"
    /\ UNCHANGED <<last, calls>>

WriteRaw ==
    /\ state = "Ready"
    /\ calls < MaxCalls
    /\ \E val \in (0 - MaxNeg)..MaxVal, mask \in {"RAW", "SCALE"},
          r \in SendRets :
        LET res == mcp23009_write_raw(Data, val, mask, r)
        IN  /\ num_out' = res.data.num_out
            /\ inout_mask' = res.data.inout_mask
            /\ out_value' = res.data.out_value
            /\ bus' = bus \o res.frames
            /\ last' = [op |-> "write_raw", mask |-> mask, val |-> val,
                        ret |-> res.ret, pre |-> out_value,
                        nbus |-> Len(bus)]
    /\ calls' = calls + 1
    /\ UNCHANGED <<state, probe>>

ReadRaw ==
    /\ state = "Ready"
    /\ calls < MaxCalls
    /\ \E mask \in Masks :
        LET res == mcp23009_read_raw(Data, mask, 0)
        IN  last' = [op |-> "read_raw", mask |-> mask, val |-> res.val,
                     ret |-> res.ret, pre |-> out_value, nbus |-> Len(bus)]
    /\ calls' = calls + 1
    /\ UNCHANGED <<state, num_out, inout_mask, out_value, bus, probe>>

Remove ==
    /\ state = "Ready"
    /\ state' = "Removed"
    /\ UNCHANGED <<num_out, inout_mask, out_value, bus, probe, last, calls>>

Next == Probe \/ WriteRaw \/ ReadRaw \/ Remove

Spec == Init /\ [][Next]_vars

(* ------------------------------ properties ----------------------------- *)
\* the values the documentation gives for the direction mask, num_out 0..8
ExpectedMask == <<255, 254, 252, 248, 240, 224, 192, 128, 0>>
\* the data byte for channel 1..8
ExpectedBit == <<1, 2, 4, 8, 16, 32, 64, 128>>
ExpectedByte(ch) == IF ch = 0 THEN 0 ELSE ExpectedBit[ch]

\* the last call was SetValue(channel) (write_raw of the raw value)
IsSetValue(c) == c.op = "write_raw" /\ c.mask = "RAW"
ChannelOk(c) == c.val >= 0 /\ c.val <= num_out
LastFrame == bus[Len(bus)]
DataFrames == {i \in 1..Len(bus) : bus[i].buf[1] = REG_GPIO}
ConfigFrames == {i \in 1..Len(bus) : bus[i].buf[1] \in {REG_IODIR, REG_GPPU}}

\* C1: for a channel in [0, num_out], when the transport answers the SetValue
\* write with a negative status or a byte count other than 2, SetValue
\* fails and out_value (ReadValue) keeps its value from before the call.
C1_FailedWriteKeepsValue ==
    (IsSetValue(last) /\ ChannelOk(last) /\ Len(bus) = last.nbus + 1
        /\ LastFrame.ret # 2)
    => (last.ret < 0 /\ out_value = last.pre)

\* C2: for every channel outside [0, num_out], SetValue fails with -EINVAL,
\* sends no frame and leaves out_value unchanged.
C2_OutOfRangeRejected ==
    (IsSetValue(last) /\ ~ChannelOk(last))
    => (last.ret = -EINVAL /\ Len(bus) = last.nbus /\ out_value = last.pre)

C2_Witness ==
    /\ IsSetValue(last) /\ num_out = 3 /\ last.val = 4
    /\ last.pre = 2 /\ out_value = 2 /\ last.ret = -EINVAL

\* C3: every SetValue(channel) with channel in [0, num_out] sends exactly one
\* frame of 2 bytes [0x09, b], b = 0 for channel 0 and 1 << (channel-1)
\* otherwise; when 2 bytes are transferred the call returns 0 and out_value
\* is channel.
C3_SetValueFrame ==
    (IsSetValue(last) /\ ChannelOk(last))
    => /\ Len(bus) = last.nbus + 1
       /\ LastFrame.buf = <<9, ExpectedByte(last.val)>>
       /\ LastFrame.count = 2
       /\ (LastFrame.ret = 2 => last.ret = 0 /\ out_value = last.val)

C3_Witness ==
    /\ IsSetValue(last) /\ num_out = 8 /\ last.val = 8 /\ last.ret = 0
    /\ Len(bus) = 4 /\ LastFrame.buf = <<9, 128>> /\ out_value = 8

\* C4: every frame sent to register 0x09 carries a byte of 8 bits with at
\* most one bit set.
C4_OneHot ==
    \A i \in DataFrames :
        bus[i].buf[2] \in 0..255 /\ PopCount(bus[i].buf[2]) <= 1

C4_Witness ==
    /\ Cardinality(DataFrames) = 2
    /\ \E i \in DataFrames : bus[i].buf[2] = 128
    /\ \E i \in DataFrames : bus[i].buf[2] = 0

\* C5: for num_out in [0, 8] and a transport transferring 2 bytes for each
\* write, probe sends exactly [0x00, inout_mask] then [0x06, 0xFF], with
\* inout_mask = ~((1 << num_out) - 1) & 0xFF, and ends with out_value = 0,
\* returning 0 when the registration that follows the writes succeeds.
C5_InitFrames ==
    [][(state = "Unbound" /\ probe'.resolved /\ probe'.num_out \in 0..8
            /\ \A i \in 1..Len(bus') : bus'[i].ret = 2)
       => /\ bus' = <<Frame(0, ExpectedMask[probe'.num_out + 1], 2),
                      Frame(6, 255, 2)>>
          /\ out_value' = 0
          /\ num_out' = probe'.num_out
          /\ inout_mask' = ExpectedMask[probe'.num_out + 1]
          /\ (probe'.reg = 0 => probe'.ret = 0 /\ state' = "Ready")]_vars

C5_Witness ==
    /\ state = "Ready" /\ calls = 0 /\ probe.num_out = 5 /\ probe.ret = 0
    /\ bus = <<Frame(0, 224, 2), Frame(6, 255, 2)>> /\ out_value = 0

\* C6: for every num_out > 8 probe fails with -EINVAL, sends no frame and
\* the controller is never Ready.
C6_TooManyOutputs ==
    (probe.resolved /\ probe.num_out > 8)
    => (probe.ret = -EINVAL /\ bus = <<>> /\ state = "Failed"
        /\ calls = 0)

C6_Witness ==
    probe.resolved /\ probe.num_out = 9 /\ state = "Failed" /\ bus = <<>>

\* C7: a configuration write answered with a negative status or a count
\* other than 2 is the last frame ever sent, probe returns -EIO and the
\* controller is never Ready; every frame to register 0x09 comes after a
\* fully transferred [0x00, inout_mask] and a fully transferred [0x06, 0xFF].
C7_ConfigFailureIsFinal ==
    /\ \A i \in ConfigFrames :
          bus[i].ret # 2
          => (i = Len(bus) /\ probe.ret = -EIO /\ state = "Failed"
              /\ calls = 0)
    /\ \A i \in DataFrames :
          /\ i >= 3
          /\ bus[1] = Frame(0, inout_mask, 2)
          /\ bus[2] = Frame(6, 255, 2)

C7_Witness ==
    /\ state = "Failed" /\ Len(bus) = 2
    /\ bus[1].ret = 2 /\ bus[2].buf[1] = 6 /\ bus[2].ret = 1

\* C8: on an initialized controller 0 <= out_value <= num_out always, and no
\* call after probe changes num_out or inout_mask.
C8_ValueBoundedConfigFixed ==
    /\ [](state \in {"Ready", "Removed"}
            => (out_value >= 0 /\ out_value <= num_out
                /\ num_out = probe.num_out
                /\ inout_mask = ExpectedMask[probe.num_out + 1]))
    /\ [][state = "Ready"
            => (num_out' = num_out /\ inout_mask' = inout_mask)]_vars

C8_Witness ==
    /\ state = "Ready" /\ calls = 2 /\ num_out = 2 /\ out_value = 2
    /\ IsSetValue(last) /\ last.val = 5 /\ last.ret = -EINVAL

\* C9: two consecutive successful SetValue(channel) calls with the same
\* channel send two identical frames (the second is not suppressed) and
\* leave out_value as it was after the first.
C9_RepeatedSetValue ==
    [][(IsSetValue(last) /\ ChannelOk(last) /\ last.ret = 0
            /\ calls' = calls + 1
            /\ IsSetValue(last') /\ last'.val = last.val /\ last'.ret = 0)
       => /\ Len(bus') = Len(bus) + 1
          /\ bus'[Len(bus')] = bus[Len(bus)]
          /\ bus'[Len(bus')].buf = <<9, ExpectedByte(last.val)>>
          /\ out_value' = out_value
          /\ out_value' = last.val]_vars

C9_Witness ==
    /\ IsSetValue(last) /\ last.val = 3 /\ last.ret = 0 /\ last.pre = 3
    /\ Len(bus) = 4 /\ bus[3] = bus[4] /\ bus[4] = Frame(9, 4, 2)
    /\ out_value = 3

\* C10: the data byte of every frame to register 0x09 has no bit in common
\* with the direction mask written to register 0x00 by probe.
C10_OnlyOutputsDriven ==
    \A i \in DataFrames :
        /\ bus[1].buf[1] = 0
        /\ BitAnd(bus[i].buf[2], bus[1].buf[2]) = 0

C10_Witness ==
    /\ num_out = 3 /\ bus[1].buf = <<0, 248>>
    /\ \E i \in DataFrames : bus[i].buf[2] = 4

====
